---------------------------- MODULE Spec2Model ----------------------------
(***************************************************************************)
(* A model of three low-level pieces of vtk-dicom:                         *)
(*   - vtkDICOMSequenceItem  (src/vtkDICOMSequenceItem.h): a handle on a   *)
(*     reference-counted backing list of data elements;                    *)
(*   - vtkDICOMFileDirectory (src/Source/vtkDICOMFileDirectory.cxx): a     *)
(*     directory listing with a growable entry table and lazily resolved   *)
(*     per-entry type flags.                                               *)
(* SpecItem explores the Sequence Item operations, SpecDir the Directory   *)
(* Lister (constructor and accessors, both platform branches), SpecGrow    *)
(* the constructor alone with listings long enough to grow the table.      *)
(***************************************************************************)
EXTENDS Integers, Sequences, FiniteSets, TLC

(***************************************************************************)
(* Bounds of the model.                                                    *)
(***************************************************************************)
\* number of Sequence Item objects (slots that can be constructed/destroyed)
MaxItems == 2
\* number of List objects the heap can hold at the same time
MaxLists == 2

\* The null pointer (List *L = 0).
NULL == 0

Items   == 1..MaxItems
\* addresses a List can be allocated at
ListIds == 1..MaxLists
Tags    == {"T1", "T2"}
Values  == {"V1", "V2"}

\* OS resources (descriptors) a File Handle model run can acquire
MaxOpens == 2
\* size of a file, in bytes
MaxSize == 2
\* element nodes a List can hold, by address 1..MaxNodes
MaxNodes == 3
\* Sequence Items that can share the List of the node-level model
MaxRefs == 2

\* addresses of the element nodes, of the two sentinels of the List, and
\* of the List itself
ElementNodes == 1..MaxNodes
HeadAddr == MaxNodes + 1
TailAddr == MaxNodes + 2
Nodes == 1..(MaxNodes + 2)
ListAddr == MaxNodes + 3
\* the OS resources
Resources == 1..MaxOpens
\* vtkDICOMFile::Handle of a closed file
NoHandle == 0

VARIABLES
  live,      \* live[i]: item i has been constructed and not yet destroyed
  L,         \* L[i]: the item's List pointer (NULL or a list address)
  heap,      \* heap[p]: the List object at address p
  deletes,   \* deletes[p]: how often the List at p was deleted since `new`
  last       \* the last Sequence Item operation performed

itemVars == <<live, L, heap, deletes, last>>

VARIABLES
  platform,      \* "posix" or "win32": the branch the build compiled
  dpc,           \* where the Directory Lister's constructor stands
  Error,         \* vtkDICOMFileDirectory::Error
  NumberOfFiles, \* vtkDICOMFileDirectory::NumberOfFiles
  Entries,       \* the entry table, index -> Entry; empty when Entries == 0
  added,         \* the arguments of the AddEntry calls made so far, in order
  overflow,      \* an AddEntry wrote past the end of the table
  called,        \* <<i, bit>>: IsDirectory/IsSymlink was called for entry i
  oserr,         \* errno / GetLastError() of the call that ended the constructor
  ret            \* the last accessor call, its result and its filesystem query

dirVars == <<platform, dpc, Error, NumberOfFiles, Entries, added, overflow,
             called, oserr, ret>>

VARIABLES
  fpc,        \* the vtkDICOMFile object: "none", "live" or "dead"
  Handle,     \* vtkDICOMFile::Handle: NoHandle or the resource it owns
  FileError,  \* vtkDICOMFile::Error
  Eof,        \* vtkDICOMFile::Eof
  Position,   \* the file position of the open descriptor
  FileSize,   \* the size of the open file
  opened,     \* how many resources the OS has handed out
  closes,     \* closes[r]: how often resource r was released
  flast       \* the last File Handle operation and the handle it found

fileVars == <<fpc, Handle, FileError, Eof, Position, FileSize, opened, closes,
              flast>>

VARIABLES
  lpc,            \* the List: "none", "alive", "walk" (in ~List) or "gone"
  Lptr,           \* vtkDICOMSequenceItem::L of the item looked at
  ReferenceCount, \* List::ReferenceCount
  Next,           \* Next[n]: DataElement::Next of the node at n
  Prev,           \* Prev[n]: DataElement::Prev of the node at n
  ptr,            \* the cursor of the loop in ~List
  nodeDeletes,    \* nodeDeletes[n]: how often element node n was deleted
  fault,          \* a sentinel, null or a deleted node was deleted or read
  range           \* the last range obtained: begin, end, the nodes between

listVars == <<lpc, Lptr, ReferenceCount, Next, Prev, ptr, nodeDeletes, fault,
              range>>

vars == <<live, L, heap, deletes, last, platform, dpc, Error, NumberOfFiles,
          Entries, added, overflow, called, oserr, ret, fpc, Handle, FileError,
          Eof, Position, FileSize, opened, closes, flast, lpc, Lptr,
          ReferenceCount, Next, Prev, ptr, nodeDeletes, fault, range>>

(***************************************************************************)
(* struct List.  The chain Head.Next .. Tail is kept as the sequence of    *)
(* its data elements, each a <<tag, value>> pair.                          *)
(***************************************************************************)
\* memory that holds no List (never allocated, or deleted)
FreedList == [alive |-> FALSE, ReferenceCount |-> 0,
              NumberOfDataElements |-> 0, elems |-> <<>>]

\* List::List(): ReferenceCount(1), NumberOfDataElements(0), Head.Next = &Tail
NewList == [alive |-> TRUE, ReferenceCount |-> 1,
            NumberOfDataElements |-> 0, elems |-> <<>>]

\* `delete this->L`: ~List() frees the chain, the memory is released
DeleteList(hp, dl, p) ==
  [heap |-> [hp EXCEPT ![p] = FreedList],
   deletes |-> [dl EXCEPT ![p] = @ + 1]]

\* `if (o.L) { o.L->ReferenceCount++; }` without the increment
RetainNoIncrement(hp, p) == hp

\* `if (o.L) { o.L->ReferenceCount++; }`
Retain(hp, p) ==
  IF p # NULL
    THEN [hp EXCEPT ![p].ReferenceCount = @ + 1]
    ELSE hp

\* a release that deletes the list whatever the count:
\* `if (this->L) { delete this->L; }`
ReleaseAlwaysDelete(hp, dl, p) ==
  IF p = NULL
    THEN [heap |-> hp, deletes |-> dl]
    ELSE DeleteList(hp, dl, p)

\* `if (this->L && --this->L->ReferenceCount == 0) { delete this->L; }`
Release(hp, dl, p) ==
  IF p = NULL
    THEN [heap |-> hp, deletes |-> dl]
    ELSE LET dec == [hp EXCEPT ![p].ReferenceCount = @ - 1]
         IN  IF dec[p].ReferenceCount = 0
               THEN DeleteList(dec, dl, p)
               ELSE [heap |-> dec, deletes |-> dl]


\* the state of the Sequence Items an operation works on and returns
ItemState(Lp, hp, dl) == [L |-> Lp, heap |-> hp, deletes |-> dl]

\* Clear() that forgets `this->L = 0`
ClearKeepPointer(Lp, hp, dl, i) ==
  LET r == Release(hp, dl, Lp[i])
  IN  ItemState(Lp, r.heap, r.deletes)

\* Clear() that drops the pointer without touching the count
ClearNoRelease(Lp, hp, dl, i) ==
  ItemState([Lp EXCEPT ![i] = NULL], hp, dl)

\* void Clear(): release the reference, then `this->L = 0`
ClearOp(Lp, hp, dl, i) ==
  LET r == Release(hp, dl, Lp[i])
  IN  ItemState([Lp EXCEPT ![i] = NULL], r.heap, r.deletes)

\* copy constructor: L(o.L), then count the new reference
CopyOp(Lp, hp, dl, i, o) ==
  ItemState([Lp EXCEPT ![i] = Lp[o]], Retain(hp, Lp[o]), dl)

\* operator= that takes the new list and forgets to release the old one
AssignNoRelease(Lp, hp, dl, x, y) ==
  IF Lp[x] # Lp[y]
    THEN ItemState([Lp EXCEPT ![x] = Lp[y]], Retain(hp, Lp[y]), dl)
    ELSE ItemState(Lp, hp, dl)

\* operator=(o): nothing when the pointers are identical; otherwise count
\* the new reference first, release the old one, take the new pointer
AssignOp(Lp, hp, dl, x, y) ==
  IF Lp[x] # Lp[y]
    THEN LET inc == Retain(hp, Lp[y])
             r   == Release(inc, dl, Lp[x])
         IN  ItemState([Lp EXCEPT ![x] = Lp[y]], r.heap, r.deletes)
    ELSE ItemState(Lp, hp, dl)

\* bool IsEmpty() const
IsEmpty(i) == L[i] = NULL

\* int GetNumberOfDataElements() const
GetNumberOfDataElements(i) ==
  IF L[i] # NULL THEN heap[L[i]].NumberOfDataElements ELSE 0

(***************************************************************************)
(* SetAttributeValue, GetAttributeValue, CopyList and operator== are only  *)
(* declared in the header; they follow the specification (section 4.3).    *)
(***************************************************************************)
\* position of tag t in a chain, 0 when absent
RECURSIVE FindTag(_, _, _)
FindTag(es, t, k) ==
  IF k > Len(es) THEN 0
  ELSE IF es[k][1] = t THEN k
  ELSE FindTag(es, t, k + 1)

\* insert or replace the value bound to tag t in list p
InsertValue(hp, p, t, v) ==
  LET es == hp[p].elems
      k  == FindTag(es, t, 1)
  IN  IF k # 0
        THEN [hp EXCEPT ![p].elems = [es EXCEPT ![k] = <<t, v>>]]
        ELSE [hp EXCEPT ![p].elems = Append(es, <<t, v>>),
                        ![p].NumberOfDataElements = @ + 1]

\* CopyList(o, t): the elements of list o, in order, into the fresh list t
CopyList(hp, o, t) ==
  [hp EXCEPT ![t].elems = hp[o].elems,
             ![t].NumberOfDataElements = hp[o].NumberOfDataElements]

\* `new List` at address p
Allocate(hp, dl, p) ==
  [heap |-> [hp EXCEPT ![p] = NewList], deletes |-> [dl EXCEPT ![p] = 0]]

\* SetAttributeValue(tag, v) with the new list (if one is needed) at p
SetOp(Lp, hp, dl, i, t, v, p) ==
  IF Lp[i] = NULL
    THEN LET a == Allocate(hp, dl, p)
         IN  ItemState([Lp EXCEPT ![i] = p],
                       InsertValue(a.heap, p, t, v), a.deletes)
  ELSE IF hp[Lp[i]].ReferenceCount > 1
    THEN LET a == Allocate(hp, dl, p)
             c == CopyList(a.heap, Lp[i], p)
             r == Release(c, a.deletes, Lp[i])
         IN  ItemState([Lp EXCEPT ![i] = p],
                       InsertValue(r.heap, p, t, v), r.deletes)
  ELSE ItemState(Lp, InsertValue(hp, Lp[i], t, v), dl)

\* the elements reachable from GetData() up to GetDataEnd()
Elements(i) == IF L[i] # NULL THEN heap[L[i]].elems ELSE <<>>

\* bool GetAttributeValue(tag, v) const: <<found, value>>
GetAttributeValue(i, t) ==
  LET k == FindTag(Elements(i), t, 1)
  IN  IF k # 0 THEN <<TRUE, Elements(i)[k][2]>> ELSE <<FALSE, "none">>

\* walk two chains side by side comparing element by element
RECURSIVE SameChain(_, _, _)
SameChain(a, b, k) ==
  IF k > Len(a) THEN k > Len(b)
  ELSE IF k > Len(b) THEN FALSE
  ELSE IF a[k] # b[k] THEN FALSE
  ELSE SameChain(a, b, k + 1)

\* bool operator==(o) const
OpEq(a, b) ==
  IF L[a] = L[b] THEN TRUE ELSE SameChain(Elements(a), Elements(b), 1)

\* operator!= written as a comparison of the list pointers
OpNePointer(a, b) == L[a] # L[b]

\* bool operator!=(o) const { return !(*this == o); }
OpNe(a, b) == ~OpEq(a, b)

(***************************************************************************)
(* The Sequence Item operations as actions.                                *)
(***************************************************************************)
Apply(r) ==
  /\ L' = r.L
  /\ heap' = r.heap
  /\ deletes' = r.deletes

\* whether a step deleted a List
Freed(r) == \E p \in ListIds : heap[p].alive /\ ~r.heap[p].alive

\* how item i holds its list before a step: not at all, alone, or shared
Holding(i) ==
  IF L[i] = NULL THEN "null"
  ELSE IF heap[L[i]].ReferenceCount > 1 THEN "shared"
  ELSE "sole"

\* the record of a step: the operation, how its item held its list before
\* (for a copy: the source item), and whether a List was deleted
Did(name, i, r) == [op |-> name, pre |-> Holding(i), freed |-> Freed(r)]

\* the slot a newly constructed item takes: the lowest one not in use
\* (slots are interchangeable), 0 when all are in use
NewItem ==
  IF \E i \in Items : ~live[i]
    THEN CHOOSE i \in Items : ~live[i] /\ \A j \in Items : ~live[j] => i <= j
    ELSE 0

\* vtkDICOMSequenceItem() : L(0) {}
Construct(i) ==
  /\ i = NewItem
  /\ live' = [live EXCEPT ![i] = TRUE]
  /\ L' = [L EXCEPT ![i] = NULL]
  /\ last' = [op |-> "Construct", pre |-> "null", freed |-> FALSE]
  /\ UNCHANGED <<heap, deletes>>
  /\ UNCHANGED <<dirVars, fileVars, listVars>>

\* vtkDICOMSequenceItem(const vtkDICOMSequenceItem &o)
CopyConstruct(i, o) ==
  /\ i = NewItem
  /\ live[o]
  /\ live' = [live EXCEPT ![i] = TRUE]
  /\ LET r == CopyOp(L, heap, deletes, i, o)
     IN  /\ Apply(r)
         /\ last' = Did("Copy", o, r)
  /\ UNCHANGED <<dirVars, fileVars, listVars>>

\* ~vtkDICOMSequenceItem() { this->Clear(); }
Destroy(i) ==
  /\ live[i]
  /\ LET r == ClearOp(L, heap, deletes, i)
     IN  /\ Apply(r)
         /\ last' = Did("Destroy", i, r)
  /\ live' = [live EXCEPT ![i] = FALSE]
  /\ UNCHANGED <<dirVars, fileVars, listVars>>

\* Clear()
Clear(i) ==
  /\ live[i]
  /\ LET r == ClearOp(L, heap, deletes, i)
     IN  /\ Apply(r)
         /\ last' = Did("Clear", i, r)
  /\ UNCHANGED live
  /\ UNCHANGED <<dirVars, fileVars, listVars>>

\* x = y
Assign(x, y) ==
  /\ live[x]
  /\ live[y]
  /\ LET r == AssignOp(L, heap, deletes, x, y)
     IN  /\ Apply(r)
         /\ last' = Did("Assign", x, r)
  /\ UNCHANGED live
  /\ UNCHANGED <<dirVars, fileVars, listVars>>

\* the address `new List` returns: a free one (the lowest, addresses being
\* interchangeable), NULL when the model's heap is exhausted
FreeAddress(hp) ==
  IF \E p \in ListIds : ~hp[p].alive
    THEN CHOOSE p \in ListIds :
           ~hp[p].alive /\ \A q \in ListIds : ~hp[q].alive => p <= q
    ELSE NULL

\* whether SetAttributeValue on item i has to allocate a List
NeedsList(i) == L[i] = NULL \/ heap[L[i]].ReferenceCount > 1

\* SetAttributeValue(tag, v)
SetAttributeValue(i, t, v) ==
  /\ live[i]
  /\ NeedsList(i) => FreeAddress(heap) # NULL
  /\ LET r == SetOp(L, heap, deletes, i, t, v, FreeAddress(heap))
     IN  /\ Apply(r)
         /\ last' = Did("Set", i, r)
  /\ UNCHANGED live
  /\ UNCHANGED <<dirVars, fileVars, listVars>>

(***************************************************************************)
(* vtkDICOMFileDirectory.  Flags and Mask are bit sets over TypeSymlink    *)
(* and TypeDirectory: `|=` is union, `& bit` is membership.                *)
(***************************************************************************)
TypeSymlink   == "TypeSymlink"
TypeDirectory == "TypeDirectory"

\* an Entry of `new Entry[k]` that AddEntry has not written yet; the code
\* reads no such entry (every read is below NumberOfFiles)
Unset == [Name |-> "", Flags |-> {}, Mask |-> {}]

\* Entries(0): no table allocated
NoTable == [j \in {} |-> Unset]

\* `new Entry[k]`
NewTable(k) == [j \in 0..(k - 1) |-> Unset]

\* the number of Entry objects the table was allocated with
Capacity(E) == Cardinality(DOMAIN E)

\* this->Entries[i]
Slot(E, i) == IF i \in DOMAIN E THEN E[i] ELSE Unset

\* a & b on non-negative ints
RECURSIVE BitAnd(_, _)
BitAnd(a, b) ==
  IF a = 0 \/ b = 0 THEN 0
  ELSE (a % 2) * (b % 2) + 2 * BitAnd(a \div 2, b \div 2)

\* the first allocation of AddEntry: `new Entry[4]`
InitialCapacity == 4

\* AddEntry that allocates the larger table and forgets to copy into it
GrowNoCopy(E, n) ==
  IF DOMAIN E = {}
    THEN NewTable(InitialCapacity)
  ELSE IF n >= InitialCapacity /\ BitAnd(n - 1, n) = 0
    THEN NewTable(n * 2)
  ELSE E

\* AddEntry that grows the table one insertion late: `n > 4` for `n >= 4`
GrowLate(E, n) ==
  IF DOMAIN E = {}
    THEN NewTable(InitialCapacity)
  ELSE IF n > InitialCapacity /\ BitAnd(n - 1, n) = 0
    THEN [j \in 0..(n * 2 - 1) |-> IF j < n THEN Slot(E, j) ELSE Unset]
  ELSE E

\* the table AddEntry writes to when NumberOfFiles is n: the first table of
\* 4, a table of 2n holding a copy of the n entries when n >= 4 is a power
\* of two, else the table as it is
Grow(E, n) ==
  IF DOMAIN E = {}
    THEN NewTable(InitialCapacity)
  ELSE IF n >= InitialCapacity /\ BitAnd(n - 1, n) = 0
    THEN [j \in 0..(n * 2 - 1) |-> IF j < n THEN Slot(E, j) ELSE Unset]
  ELSE E

\* AddEntry(name, flags, mask) on table E with NumberOfFiles n: the new
\* table, the new count, and whether Entries[n] lay outside the table
AddEntryOp(E, n, name, flags, mask) ==
  LET T == Grow(E, n)
      e == [Name |-> name, Flags |-> flags, Mask |-> mask]
  IN  IF n \in DOMAIN T
        THEN [Entries |-> [T EXCEPT ![n] = e], NumberOfFiles |-> n + 1,
              overflow |-> FALSE]
        ELSE [Entries |-> T, NumberOfFiles |-> n + 1, overflow |-> TRUE]

\* this->AddEntry(name, flags, mask) as part of a constructor step
AddEntry(name, flags, mask) ==
  LET r == AddEntryOp(Entries, NumberOfFiles, name, flags, mask)
  IN  /\ Entries' = r.Entries
      /\ NumberOfFiles' = r.NumberOfFiles
      /\ overflow' = (overflow \/ r.overflow)
      /\ added' = Append(added, [Name |-> name, Flags |-> flags, Mask |-> mask])

\* the errno mapping without EPERM: `if (e == EACCES)`
PosixErrorNoEperm(e) ==
  IF e = "EACCES" THEN "AccessDenied"
  ELSE IF e = "ENOENT" THEN "FileNotFound"
  ELSE IF e = "ENOTDIR" THEN "DirectoryNotFound"
  ELSE "Bad"

\* the error codes a failed opendir sets, by errno
PosixError(e) ==
  IF e = "EACCES" \/ e = "EPERM" THEN "AccessDenied"
  ELSE IF e = "ENOENT" THEN "FileNotFound"
  ELSE IF e = "ENOTDIR" THEN "DirectoryNotFound"
  ELSE "Bad"

\* errno after a failed opendir
OpenErrnos == {"EACCES", "EPERM", "ENOENT", "ENOTDIR", "EIO"}

\* the error code the Win32 branch ends with, by the last error code
Win32Error(code, err) ==
  IF code = "ERROR_ACCESS_DENIED" THEN "AccessDenied"
  ELSE IF code = "ERROR_FILE_NOT_FOUND" \/ code = "ERROR_PATH_NOT_FOUND"
    THEN "FileNotFound"
  ELSE IF code = "ERROR_DIRECTORY" THEN "DirectoryNotFound"
  ELSE IF code # "ERROR_NO_MORE_FILES" THEN "Bad"
  ELSE err

\* GetLastError() after FindFirstFileW or FindNextFileW failed
Win32Codes == {"ERROR_NO_MORE_FILES", "ERROR_ACCESS_DENIED",
               "ERROR_FILE_NOT_FOUND", "ERROR_PATH_NOT_FOUND",
               "ERROR_DIRECTORY", "ERROR_NOT_READY"}

\* the code after a failed FindFirstFileW, without the remapping of
\* ERROR_FILE_NOT_FOUND
FirstCodeNoRemap(code) == code

\* the code the branch works with after FindFirstFileW failed
FirstCode(code) ==
  IF code = "ERROR_FILE_NOT_FOUND" THEN "ERROR_NO_MORE_FILES" ELSE code

\* the flags the Win32 branch computes from a WIN32_FIND_DATAW
Win32Flags(fd) ==
  (IF "REPARSE_POINT" \in fd.attrs /\ fd.tag = "SYMLINK"
     THEN {TypeSymlink} ELSE {})
  \cup (IF "DIRECTORY" \in fd.attrs THEN {TypeDirectory} ELSE {})

\* the accessor's range check, `if (i < 0 || i >= this->NumberOfFiles)`,
\* written with `>` for `>=`
InRangeOffByOne(i, n) == ~(i < 0 \/ i > n)

\* the accessors' range check: `if (i < 0 || i >= this->NumberOfFiles)`
InRange(i, n) == ~(i < 0 \/ i >= n)

\* lazy resolution that sets the flag and forgets the mask bit
ResolveNoMask(E, i, bit, res) ==
  IF res = "fail" THEN E
  ELSE IF res = "is" THEN [E EXCEPT ![i].Flags = @ \cup {bit}]
  ELSE E

\* lazy resolution that marks both type bits resolved by one query
ResolveBothBits(E, i, bit, res) ==
  IF res = "fail" THEN E
  ELSE IF res = "is"
    THEN [E EXCEPT ![i].Flags = @ \cup {bit},
                   ![i].Mask = {TypeSymlink, TypeDirectory}]
  ELSE [E EXCEPT ![i].Mask = {TypeSymlink, TypeDirectory}]

\* lazy resolution that assigns the flag word, `Flags = bit` for
\* `Flags |= bit`
ResolveAssign(E, i, bit, res) ==
  IF res = "fail" THEN E
  ELSE IF res = "is"
    THEN [E EXCEPT ![i].Flags = {bit}, ![i].Mask = @ \cup {bit}]
  ELSE [E EXCEPT ![i].Mask = @ \cup {bit}]

\* the body of `if (stat(...) == 0)`: the flag bit when the mode matches,
\* the mask bit in any case; nothing when the query failed
Resolve(E, i, bit, res) ==
  IF res = "fail" THEN E
  ELSE IF res = "is"
    THEN [E EXCEPT ![i].Flags = @ \cup {bit}, ![i].Mask = @ \cup {bit}]
  ELSE [E EXCEPT ![i].Mask = @ \cup {bit}]

\* what stat()/lstat() can answer: failure, the mode asked about, another
QueryResults == {"fail", "is", "isnot"}

\* the absent result of GetFile (a null pointer)
NoFile == "<null>"

(***************************************************************************)
(* The constructor, one action per system call, and the accessors.         *)
(***************************************************************************)
\* errno = 0; DIR* dir = opendir(dirname);
PosixOpenDir ==
  /\ platform = "posix" /\ dpc = "start"
  /\ \/ /\ dpc' = "read"
        /\ UNCHANGED <<Error, oserr>>
     \/ \E e \in OpenErrnos :
          /\ Error' = PosixError(e)
          /\ oserr' = e
          /\ dpc' = "done"
  /\ UNCHANGED <<platform, NumberOfFiles, Entries, added, overflow, called, ret>>
  /\ UNCHANGED <<itemVars, fileVars, listVars>>

\* one round of the readdir loop: the end of the stream (closedir), or a
\* name, which is added unless it is "." or ".."
PosixReadDir(names, max) ==
  /\ platform = "posix" /\ dpc = "read"
  /\ \/ /\ dpc' = "done"
        /\ UNCHANGED <<NumberOfFiles, Entries, added, overflow>>
     \/ \E d \in names \cup {".", ".."} :
          /\ dpc' = "read"
          /\ IF d # "." /\ d # ".."
               THEN NumberOfFiles < max /\ AddEntry(d, {}, {})
               ELSE UNCHANGED <<NumberOfFiles, Entries, added, overflow>>
  /\ UNCHANGED <<platform, Error, called, oserr, ret>>
  /\ UNCHANGED <<itemVars, fileVars, listVars>>

\* ConvertToWideChar returned 0
Win32ConvertFails ==
  /\ platform = "win32" /\ dpc = "start"
  /\ Error' = "Bad"
  /\ dpc' = "done"
  /\ UNCHANGED <<platform, NumberOfFiles, Entries, added, overflow, called,
                 oserr, ret>>
  /\ UNCHANGED <<itemVars, fileVars, listVars>>

\* FindFirstFileW: an invalid handle and its error code, or the first
\* entry, which is added
Win32FindFirst(files) ==
  /\ platform = "win32" /\ dpc = "start"
  /\ \/ \E code \in Win32Codes :
          /\ Error' = Win32Error(FirstCode(code), Error)
          /\ oserr' = code
          /\ dpc' = "done"
          /\ UNCHANGED <<NumberOfFiles, Entries, added, overflow>>
     \/ \E fd \in files :
          /\ AddEntry(fd.name, Win32Flags(fd), {TypeSymlink, TypeDirectory})
          /\ dpc' = "next"
          /\ UNCHANGED <<Error, oserr>>
  /\ UNCHANGED <<platform, called, ret>>
  /\ UNCHANGED <<itemVars, fileVars, listVars>>

\* FindNextFileW: another entry, which is added, or failure with its error
\* code, which ends the loop (FindClose)
Win32FindNext(files, max) ==
  /\ platform = "win32" /\ dpc = "next"
  /\ \/ \E fd \in files :
          /\ NumberOfFiles < max
          /\ AddEntry(fd.name, Win32Flags(fd), {TypeSymlink, TypeDirectory})
          /\ dpc' = "next"
          /\ UNCHANGED <<Error, oserr>>
     \/ \E code \in Win32Codes :
          /\ Error' = Win32Error(code, Error)
          /\ oserr' = code
          /\ dpc' = "done"
          /\ UNCHANGED <<NumberOfFiles, Entries, added, overflow>>
  /\ UNCHANGED <<platform, called, ret>>
  /\ UNCHANGED <<itemVars, fileVars, listVars>>

\* what GetFile(i) returns: 0 out of range, else Entries[i].Name.c_str()
FileAt(i) ==
  IF InRange(i, NumberOfFiles) THEN Slot(Entries, i).Name ELSE NoFile

\* const char *GetFile(int i)
GetFile(i) ==
  /\ dpc = "done"
  /\ ret' = [call |-> "GetFile", val |-> FileAt(i), query |-> "none"]
  /\ UNCHANGED <<platform, dpc, Error, NumberOfFiles, Entries, added,
                 overflow, called, oserr>>
  /\ UNCHANGED <<itemVars, fileVars, listVars>>

\* IsDirectory that reports a failed stat() in the error code
IsDirectorySetsError(i) ==
  /\ dpc = "done"
  /\ IF ~InRange(i, NumberOfFiles)
       THEN /\ ret' = [call |-> "IsDirectory", val |-> FALSE, query |-> "none"]
            /\ UNCHANGED <<Entries, called, Error>>
     ELSE IF platform = "posix" /\ TypeDirectory \notin Slot(Entries, i).Mask
       THEN \E res \in QueryResults :
              /\ Entries' = Resolve(Entries, i, TypeDirectory, res)
              /\ ret' = [call |-> "IsDirectory",
                         val |-> TypeDirectory \in Slot(Entries', i).Flags,
                         query |-> IF res = "fail" THEN "failed" ELSE "ok"]
              /\ called' = called \cup {<<i, TypeDirectory>>}
              /\ Error' = IF res = "fail" THEN "Bad" ELSE Error
     ELSE /\ ret' = [call |-> "IsDirectory",
                     val |-> TypeDirectory \in Slot(Entries, i).Flags,
                     query |-> "none"]
          /\ called' = called \cup {<<i, TypeDirectory>>}
          /\ UNCHANGED <<Entries, Error>>
  /\ UNCHANGED <<platform, dpc, NumberOfFiles, added, overflow, oserr>>
  /\ UNCHANGED <<itemVars, fileVars, listVars>>

\* bool IsDirectory(int i): on POSIX an unresolved entry is resolved with
\* stat(), which follows links
IsDirectory(i) ==
  /\ dpc = "done"
  /\ IF ~InRange(i, NumberOfFiles)
       THEN /\ ret' = [call |-> "IsDirectory", val |-> FALSE, query |-> "none"]
            /\ UNCHANGED <<Entries, called>>
     ELSE IF platform = "posix" /\ TypeDirectory \notin Slot(Entries, i).Mask
       THEN \E res \in QueryResults :
              /\ Entries' = Resolve(Entries, i, TypeDirectory, res)
              /\ ret' = [call |-> "IsDirectory",
                         val |-> TypeDirectory \in Slot(Entries', i).Flags,
                         query |-> IF res = "fail" THEN "failed" ELSE "ok"]
              /\ called' = called \cup {<<i, TypeDirectory>>}
     ELSE /\ ret' = [call |-> "IsDirectory",
                     val |-> TypeDirectory \in Slot(Entries, i).Flags,
                     query |-> "none"]
          /\ called' = called \cup {<<i, TypeDirectory>>}
          /\ UNCHANGED Entries
  /\ UNCHANGED <<platform, dpc, Error, NumberOfFiles, added, overflow, oserr>>
  /\ UNCHANGED <<itemVars, fileVars, listVars>>

\* bool IsSymlink(int i): on POSIX an unresolved entry is resolved with
\* lstat(), which does not follow links
IsSymlink(i) ==
  /\ dpc = "done"
  /\ IF ~InRange(i, NumberOfFiles)
       THEN /\ ret' = [call |-> "IsSymlink", val |-> FALSE, query |-> "none"]
            /\ UNCHANGED <<Entries, called>>
     ELSE IF platform = "posix" /\ TypeSymlink \notin Slot(Entries, i).Mask
       THEN \E res \in QueryResults :
              /\ Entries' = Resolve(Entries, i, TypeSymlink, res)
              /\ ret' = [call |-> "IsSymlink",
                         val |-> TypeSymlink \in Slot(Entries', i).Flags,
                         query |-> IF res = "fail" THEN "failed" ELSE "ok"]
              /\ called' = called \cup {<<i, TypeSymlink>>}
     ELSE /\ ret' = [call |-> "IsSymlink",
                     val |-> TypeSymlink \in Slot(Entries, i).Flags,
                     query |-> "none"]
          /\ called' = called \cup {<<i, TypeSymlink>>}
          /\ UNCHANGED Entries
  /\ UNCHANGED <<platform, dpc, Error, NumberOfFiles, added, overflow, oserr>>
  /\ UNCHANGED <<itemVars, fileVars, listVars>>

(***************************************************************************)
(* Bounds and inputs of the Directory Lister.                              *)
(***************************************************************************)
\* entries a directory holds in SpecDir
MaxFiles == 2
\* entries a directory holds in SpecGrow
MaxGrow == 9

\* names readdir returns besides "." and ".."
DirNames == {"a", "b"}

\* what FindFirstFileW/FindNextFileW return: the two dot entries, a file, a
\* symbolic link to a directory, a junction (a reparse point, no symlink)
Win32Files ==
  { [name |-> ".",  attrs |-> {"DIRECTORY"}, tag |-> "NONE"],
    [name |-> "..", attrs |-> {"DIRECTORY"}, tag |-> "NONE"],
    [name |-> "a",  attrs |-> {}, tag |-> "NONE"],
    [name |-> "l",  attrs |-> {"REPARSE_POINT", "DIRECTORY"}, tag |-> "SYMLINK"],
    [name |-> "j",  attrs |-> {"REPARSE_POINT", "DIRECTORY"}, tag |-> "MOUNT_POINT"] }

\* the shorter list SpecGrow draws from: a file and a directory
GrowFiles ==
  { [name |-> "a", attrs |-> {}, tag |-> "NONE"],
    [name |-> "d", attrs |-> {"DIRECTORY"}, tag |-> "NONE"] }

\* the indexes the accessors are called with
Indexes(max) == (0 - 1)..(max + 1)

\* no Sequence Item has been constructed and no Directory Lister exists
InitItem ==
  /\ live = [i \in Items |-> FALSE]
  /\ L = [i \in Items |-> NULL]
  /\ heap = [p \in ListIds |-> FreedList]
  /\ deletes = [p \in ListIds |-> 0]
  /\ last = [op |-> "none", pre |-> "null", freed |-> FALSE]
  /\ platform = "posix"
  /\ dpc = "none"
  /\ Error = "Good"
  /\ NumberOfFiles = 0
  /\ Entries = NoTable
  /\ added = <<>>
  /\ overflow = FALSE
  /\ called = {}
  /\ oserr = "none"
  /\ ret = [call |-> "none", val |-> NoFile, query |-> "none"]
  /\ fpc = "none"
  /\ Handle = NoHandle
  /\ FileError = "Good"
  /\ Eof = FALSE
  /\ Position = 0
  /\ FileSize = 0
  /\ opened = 0
  /\ closes = [r \in Resources |-> 0]
  /\ flast = [op |-> "none", had |-> NoHandle]
  /\ lpc = "none"
  /\ Lptr = NULL
  /\ ReferenceCount = 0
  /\ Next = [n \in Nodes |-> NULL]
  /\ Prev = [n \in Nodes |-> NULL]
  /\ ptr = NULL
  /\ nodeDeletes = [n \in ElementNodes |-> 0]
  /\ fault = FALSE
  /\ range = [begin |-> NULL, end |-> NULL, reached |-> FALSE, data |-> <<>>]

\* vtkDICOMFileDirectory(dirname) : Error(0), NumberOfFiles(0), Entries(0),
\* in either platform branch; no Sequence Item has been constructed
InitDir ==
  /\ platform \in {"posix", "win32"}
  /\ dpc = "start"
  /\ Error = "Good"
  /\ NumberOfFiles = 0
  /\ Entries = NoTable
  /\ added = <<>>
  /\ overflow = FALSE
  /\ called = {}
  /\ oserr = "none"
  /\ ret = [call |-> "none", val |-> NoFile, query |-> "none"]
  /\ live = [i \in Items |-> FALSE]
  /\ L = [i \in Items |-> NULL]
  /\ heap = [p \in ListIds |-> FreedList]
  /\ deletes = [p \in ListIds |-> 0]
  /\ last = [op |-> "none", pre |-> "null", freed |-> FALSE]
  /\ fpc = "none"
  /\ Handle = NoHandle
  /\ FileError = "Good"
  /\ Eof = FALSE
  /\ Position = 0
  /\ FileSize = 0
  /\ opened = 0
  /\ closes = [r \in Resources |-> 0]
  /\ flast = [op |-> "none", had |-> NoHandle]
  /\ lpc = "none"
  /\ Lptr = NULL
  /\ ReferenceCount = 0
  /\ Next = [n \in Nodes |-> NULL]
  /\ Prev = [n \in Nodes |-> NULL]
  /\ ptr = NULL
  /\ nodeDeletes = [n \in ElementNodes |-> 0]
  /\ fault = FALSE
  /\ range = [begin |-> NULL, end |-> NULL, reached |-> FALSE, data |-> <<>>]

NextItem ==
  \/ \E i \in Items : Construct(i)
  \/ \E i, o \in Items : CopyConstruct(i, o)
  \/ \E i \in Items : Destroy(i)
  \/ \E i \in Items : Clear(i)
  \/ \E x, y \in Items : Assign(x, y)
  \/ \E i \in Items, t \in Tags, v \in Values : SetAttributeValue(i, t, v)

NextDir ==
  \/ PosixOpenDir
  \/ PosixReadDir(DirNames, MaxFiles)
  \/ Win32ConvertFails
  \/ Win32FindFirst(Win32Files)
  \/ Win32FindNext(Win32Files, MaxFiles)
  \/ \E i \in Indexes(MaxFiles) : GetFile(i)
  \/ \E i \in Indexes(MaxFiles) : IsDirectory(i)
  \/ \E i \in Indexes(MaxFiles) : IsSymlink(i)

NextGrow ==
  \/ PosixOpenDir
  \/ PosixReadDir(DirNames, MaxGrow)
  \/ Win32ConvertFails
  \/ Win32FindFirst(GrowFiles)
  \/ Win32FindNext(GrowFiles, MaxGrow)

\* the Sequence Item operations
SpecItem == InitItem /\ [][NextItem]_vars

\* the Directory Lister: constructor, then any accessor calls
SpecDir == InitDir /\ [][NextDir]_vars

\* the Directory Lister's constructor on longer listings
SpecGrow == InitDir /\ [][NextGrow]_vars

(***************************************************************************)
(* vtkDICOMFile.  The header declares the class; the bodies of the         *)
(* constructor, Close, the destructor, Read, Write and SetPosition are not *)
(* part of the sources and are modelled as the specification describes     *)
(* them.  The OS side is a ledger: the resources handed out, and how often *)
(* each was released.                                                      *)
(***************************************************************************)
\* the file modes, enum Mode
Modes == {"In", "Out"}

\* the codes a failed open leaves in Error
OpenFailures == {"Bad", "AccessDenied", "IsDirectory", "DirectoryNotFound",
                 "FileNotFound"}

\* int GetError() { return this->Error; }
GetError == FileError

\* Close that releases the resource and keeps the handle
CloseKeepsHandle(h, cl) ==
  IF h # NoHandle
    THEN [Handle |-> h, closes |-> [cl EXCEPT ![h] = @ + 1]]
    ELSE [Handle |-> h, closes |-> cl]

\* Close(): releases the OS resource if one is held and marks the handle
\* closed; the new handle and the new ledger
CloseOp(h, cl) ==
  IF h # NoHandle
    THEN [Handle |-> NoHandle, closes |-> [cl EXCEPT ![h] = @ + 1]]
    ELSE [Handle |-> NoHandle, closes |-> cl]

\* vtkDICOMFile(filename, mode): one open call; on success exactly one
\* resource is acquired (mode In: the existing file, of size sz; mode Out:
\* the file created or truncated), on failure none and Error is set
FileConstruct(mode, sz) ==
  /\ fpc \in {"none", "dead"}
  /\ \/ /\ opened < MaxOpens
        /\ opened' = opened + 1
        /\ Handle' = opened + 1
        /\ FileError' = "Good"
        /\ FileSize' = IF mode = "In" THEN sz ELSE 0
     \/ \E code \in OpenFailures :
          /\ Handle' = NoHandle
          /\ FileError' = code
          /\ FileSize' = 0
          /\ UNCHANGED opened
  /\ fpc' = "live"
  /\ Eof' = FALSE
  /\ Position' = 0
  /\ flast' = [op |-> "Construct", had |-> NoHandle]
  /\ UNCHANGED closes
  /\ UNCHANGED <<itemVars, dirVars, listVars>>

\* size_t Read(data, size): up to n bytes from the current position; Eof
\* once fewer bytes than asked for were left; 0 and an error code when the
\* call fails or the handle is closed
Read(n) ==
  /\ fpc = "live"
  /\ \/ /\ Handle # NoHandle
        /\ Position' = IF Position + n <= FileSize THEN Position + n
                       ELSE FileSize
        /\ Eof' = (Eof \/ Position + n > FileSize)
        /\ UNCHANGED FileError
     \/ /\ FileError' = "Bad"
        /\ UNCHANGED <<Position, Eof>>
  /\ flast' = [op |-> "Read", had |-> Handle]
  /\ UNCHANGED <<fpc, Handle, FileSize, opened, closes>>
  /\ UNCHANGED <<itemVars, dirVars, listVars>>

\* size_t Write(data, size): n bytes at the current position; a short write
\* sets the error code
Write(n) ==
  /\ fpc = "live"
  /\ \/ /\ Handle # NoHandle
        /\ Position + n <= MaxSize
        /\ Position' = Position + n
        /\ FileSize' = IF Position + n > FileSize THEN Position + n
                       ELSE FileSize
        /\ UNCHANGED FileError
     \/ \E code \in {"OutOfSpace", "Bad"} :
          /\ FileError' = code
          /\ UNCHANGED <<Position, FileSize>>
  /\ flast' = [op |-> "Write", had |-> Handle]
  /\ UNCHANGED <<fpc, Handle, Eof, opened, closes>>
  /\ UNCHANGED <<itemVars, dirVars, listVars>>

\* bool SetPosition(offset): an absolute seek; false, with nothing moved,
\* when the handle is closed
SetPosition(offset) ==
  /\ fpc = "live"
  /\ IF Handle # NoHandle
       THEN Position' = offset
       ELSE UNCHANGED Position
  /\ flast' = [op |-> "SetPosition", had |-> Handle]
  /\ UNCHANGED <<fpc, Handle, FileError, Eof, FileSize, opened, closes>>
  /\ UNCHANGED <<itemVars, dirVars, listVars>>

\* void Close()
Close ==
  /\ fpc = "live"
  /\ Handle' = CloseOp(Handle, closes).Handle
  /\ closes' = CloseOp(Handle, closes).closes
  /\ flast' = [op |-> "Close", had |-> Handle]
  /\ UNCHANGED <<fpc, FileError, Eof, Position, FileSize, opened>>
  /\ UNCHANGED <<itemVars, dirVars, listVars>>

\* ~vtkDICOMFile(): "Destruct the object and close the file"
FileDestruct ==
  /\ fpc = "live"
  /\ Handle' = CloseOp(Handle, closes).Handle
  /\ closes' = CloseOp(Handle, closes).closes
  /\ fpc' = "dead"
  /\ flast' = [op |-> "Destruct", had |-> Handle]
  /\ UNCHANGED <<FileError, Eof, Position, FileSize, opened>>
  /\ UNCHANGED <<itemVars, dirVars, listVars>>

\* no vtkDICOMFile has been constructed and the OS has handed out nothing
InitFile ==
  /\ fpc = "none"
  /\ Handle = NoHandle
  /\ FileError = "Good"
  /\ Eof = FALSE
  /\ Position = 0
  /\ FileSize = 0
  /\ opened = 0
  /\ closes = [r \in Resources |-> 0]
  /\ flast = [op |-> "none", had |-> NoHandle]
  /\ live = [i \in Items |-> FALSE]
  /\ L = [i \in Items |-> NULL]
  /\ heap = [p \in ListIds |-> FreedList]
  /\ deletes = [p \in ListIds |-> 0]
  /\ last = [op |-> "none", pre |-> "null", freed |-> FALSE]
  /\ platform = "posix"
  /\ dpc = "none"
  /\ Error = "Good"
  /\ NumberOfFiles = 0
  /\ Entries = NoTable
  /\ added = <<>>
  /\ overflow = FALSE
  /\ called = {}
  /\ oserr = "none"
  /\ ret = [call |-> "none", val |-> NoFile, query |-> "none"]
  /\ lpc = "none"
  /\ Lptr = NULL
  /\ ReferenceCount = 0
  /\ Next = [n \in Nodes |-> NULL]
  /\ Prev = [n \in Nodes |-> NULL]
  /\ ptr = NULL
  /\ nodeDeletes = [n \in ElementNodes |-> 0]
  /\ fault = FALSE
  /\ range = [begin |-> NULL, end |-> NULL, reached |-> FALSE, data |-> <<>>]

NextFile ==
  \/ \E mode \in Modes, sz \in 0..MaxSize : FileConstruct(mode, sz)
  \/ \E n \in 1..MaxSize : Read(n)
  \/ \E n \in 1..MaxSize : Write(n)
  \/ \E offset \in 0..MaxSize : SetPosition(offset)
  \/ Close
  \/ FileDestruct

\* the File Handle: construction, I/O, Close and destruction, repeated
SpecFile == InitFile /\ [][NextFile]_vars

(***************************************************************************)
(* struct List at the level of its nodes: the sentinels Head and Tail, the *)
(* element nodes linked between them by Next and Prev, and the loop of     *)
(* ~List.  One Sequence Item is looked at (its pointer is Lptr); other     *)
(* items that share the List appear as further references.  The linking of *)
(* a new node is part of SetAttributeValue, whose body is not part of the  *)
(* sources.                                                                *)
(***************************************************************************)
\* the node at p can be read: a sentinel, or an element node that was
\* linked into the chain and has not been deleted
Readable(p) ==
  /\ p \in Nodes
  /\ p \in ElementNodes => Next[p] # NULL /\ nodeDeletes[p] = 0

\* GetData that hands out the Head sentinel as the first element
GetDataFromHead == IF Lptr # NULL THEN HeadAddr ELSE NULL

\* GetData(): return (this->L ? this->L->Head.Next : 0)
GetData == IF Lptr # NULL THEN Next[HeadAddr] ELSE NULL

\* GetDataEnd(): return (this->L ? &this->L->Tail : 0)
GetDataEnd == IF Lptr # NULL THEN TailAddr ELSE NULL

\* the nodes an iterator yields from p until it equals e, following Next;
\* reached is FALSE when it left the nodes or did not arrive within fuel
\* steps
RECURSIVE Follow(_, _, _)
Follow(p, e, fuel) ==
  IF p = e THEN [reached |-> TRUE, data |-> <<>>]
  ELSE IF fuel = 0 \/ p \notin Nodes THEN [reached |-> FALSE, data |-> <<>>]
  ELSE LET r == Follow(Next[p], e, fuel - 1)
       IN  [reached |-> r.reached, data |-> <<p>> \o r.data]

\* the loop body that deletes the node it has stepped onto: `delete ptr`
\* for `delete ptr->Prev`
LoopBodyDeletesCurrent(p, nd) ==
  IF ~Readable(p)
    THEN [ptr |-> p, nodeDeletes |-> nd, fault |-> TRUE]
  ELSE LET n == Next[p]
       IN  IF n \in ElementNodes
             THEN [ptr |-> n, nodeDeletes |-> [nd EXCEPT ![n] = @ + 1],
                   fault |-> nd[n] > 0]
           ELSE [ptr |-> n, nodeDeletes |-> nd, fault |-> n # NULL]

\* one round of the loop in ~List, `ptr = ptr->Next; delete ptr->Prev;`,
\* with cursor p and delete counts nd: the new cursor, the new counts, and
\* whether the round read a node that cannot be read or deleted a sentinel
\* or a node already deleted (deleting a null pointer does nothing)
LoopBody(p, nd) ==
  IF ~Readable(p)
    THEN [ptr |-> p, nodeDeletes |-> nd, fault |-> TRUE]
  ELSE LET n == Next[p]
       IN  IF ~Readable(n)
             THEN [ptr |-> n, nodeDeletes |-> nd, fault |-> TRUE]
           ELSE LET victim == Prev[n]
                IN  IF victim \in ElementNodes
                      THEN [ptr |-> n,
                            nodeDeletes |-> [nd EXCEPT ![victim] = @ + 1],
                            fault |-> nd[victim] > 0]
                    ELSE [ptr |-> n, nodeDeletes |-> nd,
                          fault |-> victim # NULL]

\* `new List`: List() : ReferenceCount(1), Head.Prev = 0, Head.Next = &Tail,
\* Tail.Prev = &Head, Tail.Next = 0; the item holds the new List
ListConstruct ==
  /\ lpc = "none"
  /\ lpc' = "alive"
  /\ Lptr' = ListAddr
  /\ ReferenceCount' = 1
  /\ Next' = [Next EXCEPT ![HeadAddr] = TailAddr, ![TailAddr] = NULL]
  /\ Prev' = [Prev EXCEPT ![HeadAddr] = NULL, ![TailAddr] = HeadAddr]
  /\ UNCHANGED <<ptr, nodeDeletes, fault, range>>
  /\ UNCHANGED <<itemVars, dirVars, fileVars>>

\* a new element node at address a is linked in after node p of the chain,
\* through the item, whose List is not shared
InsertNode(a, p) ==
  /\ lpc = "alive" /\ Lptr # NULL /\ ReferenceCount = 1
  /\ a \in ElementNodes /\ Next[a] = NULL
  /\ p \in Nodes \ {TailAddr} /\ Next[p] # NULL
  /\ Next' = [Next EXCEPT ![a] = Next[p], ![p] = a]
  /\ Prev' = [Prev EXCEPT ![a] = p, ![Next[p]] = a]
  /\ UNCHANGED <<lpc, Lptr, ReferenceCount, ptr, nodeDeletes, fault, range>>
  /\ UNCHANGED <<itemVars, dirVars, fileVars>>

\* another item is copy-constructed from the item:
\* `if (this->L) { this->L->ReferenceCount++; }`
ShareList ==
  /\ lpc = "alive" /\ Lptr # NULL
  /\ ReferenceCount < MaxRefs
  /\ ReferenceCount' = ReferenceCount + 1
  /\ UNCHANGED <<lpc, Lptr, Next, Prev, ptr, nodeDeletes, fault, range>>
  /\ UNCHANGED <<itemVars, dirVars, fileVars>>

\* Clear() of the item: `if (L && --L->ReferenceCount == 0) { delete L; }
\* L = 0;`, where `delete L` enters ~List: `ptr = this->Head.Next`
ClearItem ==
  /\ lpc = "alive" /\ Lptr # NULL
  /\ ReferenceCount' = ReferenceCount - 1
  /\ Lptr' = NULL
  /\ IF ReferenceCount = 1
       THEN lpc' = "walk" /\ ptr' = Next[HeadAddr]
       ELSE UNCHANGED <<lpc, ptr>>
  /\ UNCHANGED <<Next, Prev, nodeDeletes, fault, range>>
  /\ UNCHANGED <<itemVars, dirVars, fileVars>>

\* Clear() of another item that shares the List
ClearOther ==
  /\ lpc = "alive"
  /\ ReferenceCount > (IF Lptr # NULL THEN 1 ELSE 0)
  /\ ReferenceCount' = ReferenceCount - 1
  /\ IF ReferenceCount = 1
       THEN lpc' = "walk" /\ ptr' = Next[HeadAddr]
       ELSE UNCHANGED <<lpc, ptr>>
  /\ UNCHANGED <<Lptr, Next, Prev, nodeDeletes, fault, range>>
  /\ UNCHANGED <<itemVars, dirVars, fileVars>>

\* one round of `while (ptr != &this->Tail)`; the run is cut off at the
\* first fault
DestructorStep ==
  /\ lpc = "walk" /\ ~fault
  /\ ptr # TailAddr
  /\ ptr' = LoopBody(ptr, nodeDeletes).ptr
  /\ nodeDeletes' = LoopBody(ptr, nodeDeletes).nodeDeletes
  /\ fault' = LoopBody(ptr, nodeDeletes).fault
  /\ UNCHANGED <<lpc, Lptr, ReferenceCount, Next, Prev, range>>
  /\ UNCHANGED <<itemVars, dirVars, fileVars>>

\* the loop ends at ptr == &this->Tail and the List is released
DestructorExit ==
  /\ lpc = "walk" /\ ~fault
  /\ ptr = TailAddr
  /\ lpc' = "gone"
  /\ UNCHANGED <<Lptr, ReferenceCount, Next, Prev, ptr, nodeDeletes, fault,
                 range>>
  /\ UNCHANGED <<itemVars, dirVars, fileVars>>

\* the item's range is obtained and iterated: GetData(), GetDataEnd(), and
\* ++iter until the end is met
GetDataRange ==
  /\ lpc # "walk"
  /\ range' = [begin |-> GetData, end |-> GetDataEnd,
               reached |-> Follow(GetData, GetDataEnd, MaxNodes + 2).reached,
               data |-> Follow(GetData, GetDataEnd, MaxNodes + 2).data]
  /\ UNCHANGED <<lpc, Lptr, ReferenceCount, Next, Prev, ptr, nodeDeletes,
                 fault>>
  /\ UNCHANGED <<itemVars, dirVars, fileVars>>

\* vtkDICOMSequenceItem() : L(0), and no List has been allocated
InitList ==
  /\ lpc = "none"
  /\ Lptr = NULL
  /\ ReferenceCount = 0
  /\ Next = [n \in Nodes |-> NULL]
  /\ Prev = [n \in Nodes |-> NULL]
  /\ ptr = NULL
  /\ nodeDeletes = [n \in ElementNodes |-> 0]
  /\ fault = FALSE
  /\ range = [begin |-> NULL, end |-> NULL, reached |-> FALSE, data |-> <<>>]
  /\ live = [i \in Items |-> FALSE]
  /\ L = [i \in Items |-> NULL]
  /\ heap = [p \in ListIds |-> FreedList]
  /\ deletes = [p \in ListIds |-> 0]
  /\ last = [op |-> "none", pre |-> "null", freed |-> FALSE]
  /\ platform = "posix"
  /\ dpc = "none"
  /\ Error = "Good"
  /\ NumberOfFiles = 0
  /\ Entries = NoTable
  /\ added = <<>>
  /\ overflow = FALSE
  /\ called = {}
  /\ oserr = "none"
  /\ ret = [call |-> "none", val |-> NoFile, query |-> "none"]
  /\ fpc = "none"
  /\ Handle = NoHandle
  /\ FileError = "Good"
  /\ Eof = FALSE
  /\ Position = 0
  /\ FileSize = 0
  /\ opened = 0
  /\ closes = [r \in Resources |-> 0]
  /\ flast = [op |-> "none", had |-> NoHandle]

NextList ==
  \/ ListConstruct
  \/ \E a \in ElementNodes, p \in Nodes : InsertNode(a, p)
  \/ ShareList
  \/ ClearItem
  \/ ClearOther
  \/ DestructorStep
  \/ DestructorExit
  \/ GetDataRange

\* the List and its nodes; the destructor, once entered, runs to its end
SpecList ==
  /\ InitList
  /\ [][NextList]_vars
  /\ WF_vars(DestructorStep)
  /\ WF_vars(DestructorExit)

(***************************************************************************)
(* Properties of the Sequence Item.                                        *)
(***************************************************************************)
\* the live items whose list pointer refers to the List at p
Referrers(p) == {i \in Items : live[i] /\ L[i] = p}

\* no live item points to released memory
NoUseAfterRelease ==
  \A i \in Items : live[i] /\ L[i] # NULL => heap[L[i]].alive

\* no List has been deleted more than once since it was allocated, and a
\* List that is alive has not been deleted
NoDoubleFree ==
  \A p \in ListIds :
    /\ deletes[p] <= 1
    /\ heap[p].alive => deletes[p] = 0

\* no List is alive with no item pointing to it
NoLeak == \A p \in ListIds : heap[p].alive => Referrers(p) # {}

\* a List is deleted only by the step that removes its last reference
DestroyedAtLastRelease ==
  \A p \in ListIds :
    heap[p].alive /\ ~heap'[p].alive =>
      /\ Cardinality(Referrers(p)) = 1
      /\ Referrers(p)' = {}
      /\ deletes'[p] = 1

\* C1: whatever the order of copy-construction, assignment, Clear() and
\* destruction, a backing list is destroyed exactly once, at the step that
\* removes its last reference: never while an item still points to it,
\* never twice, and it is never left alive with no item pointing to it.
C1_DestroyedExactlyOnce ==
  /\ [](NoUseAfterRelease /\ NoDoubleFree /\ NoLeak)
  /\ [][DestroyedAtLastRelease]_itemVars

\* C1 witness: every item has been destroyed and the destruction of the
\* last one deleted the list it held alone.
C1_Witness ==
  /\ last.op = "Destroy" /\ last.pre = "sole" /\ last.freed
  /\ \A i \in Items : ~live[i]
  /\ \E p \in ListIds : deletes[p] = 1

\* the values other items read for every tag
ReadByOthers(i) ==
  [o \in Items \ {i} |-> [t \in Tags |-> GetAttributeValue(o, t)]]

\* C2: a SetAttributeValue on one item is never visible through another
\* item: every other live item reads the same value for every tag (and
\* keeps the same elements) after the call as before it.
C2_CopyOnWrite ==
  [][\A i \in Items, t \in Tags, v \in Values :
       SetAttributeValue(i, t, v) =>
         /\ ReadByOthers(i)' = ReadByOthers(i)
         /\ \A o \in Items \ {i} : live[o] => Elements(o)' = Elements(o)
         /\ GetAttributeValue(i, t)' = <<TRUE, v>>]_itemVars

\* C2 witness: the last step was a SetAttributeValue on an item that shared
\* its list, and the item now reads V2 for T1 where another item, still on
\* the old list, reads V1.
C2_Witness ==
  /\ last.op = "Set" /\ last.pre = "shared"
  /\ \E a, b \in Items :
       /\ live[a] /\ live[b] /\ L[a] # L[b]
       /\ GetAttributeValue(a, "T1") = <<TRUE, "V2">>
       /\ GetAttributeValue(b, "T1") = <<TRUE, "V1">>

\* C3: the ReferenceCount of every live backing list equals the number of
\* live items whose pointer refers to it, and is at least 1 while an item
\* refers to the list.
C3_CountEqualsReferrers ==
  /\ \A p \in ListIds :
       heap[p].alive => heap[p].ReferenceCount = Cardinality(Referrers(p))
  /\ \A i \in Items :
       live[i] /\ L[i] # NULL =>
         heap[L[i]].alive /\ heap[L[i]].ReferenceCount >= 1

\* C3 witness: a copy construction has raised a list's count to 2.
C3_Witness ==
  /\ last.op = "Copy" /\ last.pre = "sole"
  /\ \E p \in ListIds : heap[p].alive /\ heap[p].ReferenceCount = 2

\* what x = y has to do to the Lists when the pointers differ
AssignEffect(x, y) ==
  /\ L' = [L EXCEPT ![x] = L[y]]
  /\ L[y] # NULL =>
       /\ heap'[L[y]].alive
       /\ heap'[L[y]].ReferenceCount = heap[L[y]].ReferenceCount + 1
  /\ L[x] # NULL =>
       IF heap[L[x]].ReferenceCount = 1
         THEN ~heap'[L[x]].alive /\ deletes'[L[x]] = deletes[L[x]] + 1
         ELSE /\ heap'[L[x]].alive
              /\ heap'[L[x]].ReferenceCount = heap[L[x]].ReferenceCount - 1
              /\ deletes'[L[x]] = deletes[L[x]]
  /\ \A p \in ListIds \ {L[x], L[y]} :
       heap'[p] = heap[p] /\ deletes'[p] = deletes[p]

Now == ItemState(L, heap, deletes)

\* C5: Clear() on an empty item changes nothing, a second Clear() changes
\* nothing after the first, and an item is empty with zero data elements
\* when freshly default-constructed and after any Clear().
C5_ClearIdempotent ==
  /\ [](\A i \in Items :
          live[i] =>
            LET once == ClearOp(L, heap, deletes, i)
            IN  /\ IsEmpty(i) => once = Now
                /\ ClearOp(once.L, once.heap, once.deletes, i) = once)
  /\ [][\A i \in Items :
          Clear(i) \/ Construct(i) =>
            IsEmpty(i)' /\ GetNumberOfDataElements(i)' = 0]_itemVars

\* C5 witness: Clear() has just been called on an item that was empty.
C5_Witness ==
  /\ last.op = "Clear" /\ last.pre = "null" /\ ~last.freed
  /\ \E i \in Items : live[i] /\ IsEmpty(i)

Valid == 0..(NumberOfFiles - 1)

\* C6: "." and ".." are excluded from the listing in every platform
\* branch: no valid index i has GetFile(i) equal to "." or "..".
C6_NoDotEntries ==
  \A i \in Valid : FileAt(i) # "." /\ FileAt(i) # ".."

\* what a call for entry i and one type bit does, as the code does it: no
\* query and no change when the bit is resolved; otherwise one query, which
\* resolves the bit when it succeeds and leaves the entry unresolved, with
\* the result false, when it fails
LazyStep(i, bit) ==
  IF bit \in Entries[i].Mask
    THEN /\ ret'.query = "none"
         /\ Entries' = Entries
    ELSE /\ ret'.query \in {"ok", "failed"}
         /\ ret'.query = "ok" => bit \in Entries'[i].Mask
         /\ ret'.query = "failed" =>
              /\ Entries' = Entries
              /\ ret'.val = FALSE

\* C7 (amended): a call for a valid entry whose flag is unresolved issues
\* exactly one filesystem query; if the query succeeds the flag is resolved
\* and cached before returning, and every later call for that entry and
\* flag issues no query; if the query fails the entry stays unresolved and
\* the call returns false.  A call on a resolved flag issues no query.
C7_CachedWhenQuerySucceeds ==
  [][\A i \in Indexes(MaxFiles) :
       i \in Valid =>
         /\ IsDirectory(i) => LazyStep(i, TypeDirectory)
         /\ IsSymlink(i) => LazyStep(i, TypeSymlink)]_vars

\* C7 witness: on POSIX, IsDirectory has just answered true for an entry
\* without a query, from the flag an earlier call cached.
C7_Witness ==
  /\ platform = "posix"
  /\ ret.call = "IsDirectory" /\ ret.query = "none" /\ ret.val = TRUE
  /\ \E i \in Valid :
       /\ <<i, TypeDirectory>> \in called
       /\ TypeDirectory \in Entries[i].Mask
       /\ TypeDirectory \in Entries[i].Flags

\* what C7 says of a call for entry i and one type bit: an unresolved flag
\* is queried and resolved by the call, and a call after the first for the
\* same entry and flag issues no query
FirstCallResolves(i, bit) ==
  /\ bit \notin Entries[i].Mask =>
       /\ ret'.query # "none"
       /\ bit \in Entries'[i].Mask
  /\ <<i, bit>> \in called => ret'.query = "none"

\* C7 as stated: every call on an unresolved flag resolves and caches it,
\* so that no call after the first for the same entry and flag queries the
\* filesystem.
C7_ResolvedByFirstCall ==
  [][\A i \in Indexes(MaxFiles) :
       i \in Valid =>
         /\ IsDirectory(i) => FirstCallResolves(i, TypeDirectory)
         /\ IsSymlink(i) => FirstCallResolves(i, TypeSymlink)]_vars

\* C8: after any number of AddEntry calls the count is the number of calls
\* and entry i holds exactly the name, flags and mask of call i+1; no call
\* wrote outside the table.
C8_EntriesAsInserted ==
  /\ NumberOfFiles = Len(added)
  /\ ~overflow
  /\ \A i \in Valid : i \in DOMAIN Entries /\ Entries[i] = added[i + 1]

\* C8 witness: a listing of 9 entries, past the growth steps at 4 and at 8,
\* whose first and last entries differ.
C8_Witness ==
  /\ dpc = "done"
  /\ NumberOfFiles = 9
  /\ Capacity(Entries) = 16
  /\ Entries[0] # Entries[8]

\* what an accessor call leaves alone
AccessorFrame == UNCHANGED <<Entries, NumberOfFiles, Error, called>>

\* C9: for an index outside [0, count), GetFile returns the absent result
\* and IsDirectory and IsSymlink return false, with no filesystem query and
\* no change to any entry, the count or the error code.
C9_OutOfRange ==
  [][\A i \in Indexes(MaxFiles) :
       (i < 0 \/ i >= NumberOfFiles) =>
         /\ GetFile(i) =>
              ret'.val = NoFile /\ ret'.query = "none" /\ AccessorFrame
         /\ IsDirectory(i) =>
              ret'.val = FALSE /\ ret'.query = "none" /\ AccessorFrame
         /\ IsSymlink(i) =>
              ret'.val = FALSE /\ ret'.query = "none" /\ AccessorFrame]_vars

\* C9 witness: GetFile has just returned the absent result on a listing
\* that holds entries with unresolved flags.
C9_Witness ==
  /\ ret.call = "GetFile" /\ ret.val = NoFile
  /\ NumberOfFiles = 2
  /\ \A i \in Valid : Entries[i].Mask = {}

\* n is 1, 2, 4, 8, ...
RECURSIVE IsPowerOfTwo(_)
IsPowerOfTwo(n) ==
  IF n <= 1 THEN n = 1
  ELSE n % 2 = 0 /\ IsPowerOfTwo(n \div 2)

\* the shape of the table in every state: no table yet, or a capacity of
\* 4, 8, 16, ...; the count within the capacity; no write outside the table
TableShape ==
  /\ Capacity(Entries) # 0 =>
       /\ Capacity(Entries) % 4 = 0
       /\ IsPowerOfTwo(Capacity(Entries) \div 4)
  /\ NumberOfFiles <= Capacity(Entries)
  /\ ~overflow

\* the capacity across one step: a step that inserts (the count goes from n
\* to n + 1) writes index n below the capacity it leaves, allocates 4 when
\* there was no table, doubles when n is a power of two >= 4 equal to the
\* capacity, and keeps the capacity otherwise; any other step keeps it
CapacityStep ==
  LET n == NumberOfFiles
      c == Capacity(Entries)
  IN  IF NumberOfFiles' = n + 1
        THEN /\ n < Capacity(Entries')
             /\ Capacity(Entries') =
                  IF c = 0 THEN 4
                  ELSE IF IsPowerOfTwo(n) /\ n >= 4 /\ n = c THEN 2 * c
                  ELSE c
        ELSE Capacity(Entries') = c

\* C12: in every state during and after enumeration the capacity is 4 times
\* a power of two once allocated, the count is at most the capacity and
\* every AddEntry writes below the capacity; the capacity doubles exactly
\* when the count before insertion is a power of two >= 4 equal to the
\* capacity, and never otherwise.
C12_CapacityGrowth == []TableShape /\ [][CapacityStep]_vars

\* C12 witness: the ninth entry has been written into a table of 16, after
\* the doublings at 4 and at 8.
C12_Witness ==
  /\ NumberOfFiles = 9
  /\ Capacity(Entries) = 16
  /\ Len(added) = 9
  /\ ~overflow

\* the error code across one step: it changes only from Good, and only in
\* the step that ends the constructor; a step taken after construction (an
\* accessor call) keeps it, and a call whose query failed returned false
ErrorStep ==
  /\ Error' # Error => Error = "Good" /\ dpc # "done" /\ dpc' = "done"
  /\ dpc = "done" =>
       /\ Error' = Error
       /\ ret'.query = "failed" => ret'.val = FALSE

\* C13: the error code is set once during construction and never changed
\* by a later GetFile, IsDirectory or IsSymlink; when a lazy query fails the
\* call returns false and the error code keeps its construction-time value.
C13_ErrorSetOnce == [][ErrorStep]_vars

\* C13 witness: on POSIX, stat() has just failed for an entry of a listing
\* that was opened without error; IsDirectory returned false, the entry is
\* unresolved and the error code is Good.
C13_Witness ==
  /\ platform = "posix" /\ dpc = "done"
  /\ ret.call = "IsDirectory" /\ ret.query = "failed" /\ ret.val = FALSE
  /\ Error = "Good"
  /\ \E i \in Valid :
       <<i, TypeDirectory>> \in called /\ TypeDirectory \notin Entries[i].Mask

\* the shape of the table is kept: the count, the capacity, every name
ShapeKept ==
  /\ NumberOfFiles' = NumberOfFiles
  /\ DOMAIN Entries' = DOMAIN Entries
  /\ \A j \in DOMAIN Entries : Entries'[j].Name = Entries[j].Name

\* at most one type bit of entry i's flags and mask differs across the step
OnlyBit(i, bit) ==
  /\ \A j \in DOMAIN Entries : j # i => Entries'[j] = Entries[j]
  /\ i \in DOMAIN Entries =>
       /\ Entries'[i].Flags \ {bit} = Entries[i].Flags \ {bit}
       /\ Entries'[i].Mask \ {bit} = Entries[i].Mask \ {bit}

\* C14: after construction GetFile, IsDirectory and IsSymlink leave the
\* count, the capacity and every name unchanged; IsDirectory(i) changes at
\* most the directory bit of entry i's flags and mask, IsSymlink(i) at most
\* the symlink bit, and GetFile nothing: a step that changes the table or
\* the count is no GetFile, and as a step of IsDirectory(i) or IsSymlink(i)
\* it keeps the shape and changes that one bit of entry i only.
C14_AccessorFrame ==
  [][\/ UNCHANGED <<Entries, NumberOfFiles>>
     \/ \A i \in Indexes(MaxFiles) :
          /\ ~GetFile(i)
          /\ IsDirectory(i) => ShapeKept /\ OnlyBit(i, TypeDirectory)
          /\ IsSymlink(i) => ShapeKept /\ OnlyBit(i, TypeSymlink)]_vars

\* C14 witness: IsDirectory has just resolved the directory bit of one
\* entry by a query; the symlink bit of that entry and both bits of the
\* other entry are still unresolved.
C14_Witness ==
  /\ platform = "posix" /\ NumberOfFiles = 2
  /\ ret.call = "IsDirectory" /\ ret.query = "ok" /\ ret.val = TRUE
  /\ \E i, j \in Valid :
       /\ i # j
       /\ Entries[i].Mask = {TypeDirectory}
       /\ Entries[i].Flags = {TypeDirectory}
       /\ Entries[j].Mask = {}

\* the two classification bits
TypeBits == {TypeSymlink, TypeDirectory}

\* a flag bit is set only if its mask bit is set: an unresolved bit reads
\* as false
FlagsWithinMask ==
  \A i \in Valid : \A bit \in TypeBits :
    bit \in Slot(Entries, i).Flags => bit \in Slot(Entries, i).Mask

\* a resolved bit stays resolved and keeps its value across the step
ResolvedKept ==
  \A i \in Valid : \A bit \in TypeBits :
    bit \in Slot(Entries, i).Mask =>
      /\ bit \in Slot(Entries', i).Mask
      /\ bit \in Slot(Entries', i).Flags <=> bit \in Slot(Entries, i).Flags

\* C15: in every reachable state, for every entry and both bits, the flag
\* bit is set only if the mask bit is set, so an unresolved flag reads as
\* false; once a mask bit is set neither it nor its flag bit changes.
C15_FlagTrustedByMask == []FlagsWithinMask /\ [][ResolvedKept]_vars

\* C15 witness: on POSIX one entry has both bits resolved, a directory that
\* is a symbolic link, after both accessors were called for it; the other
\* entry is unresolved and reads as false.
C15_Witness ==
  /\ platform = "posix" /\ NumberOfFiles = 2
  /\ \E i, j \in Valid :
       /\ Entries[i].Mask = TypeBits
       /\ Entries[i].Flags = TypeBits
       /\ {<<i, TypeSymlink>>, <<i, TypeDirectory>>} \subseteq called
       /\ Entries[j].Mask = {} /\ Entries[j].Flags = {}

\* the error code C16 names for each cause of a failed open
CodeOfCause ==
  [e \in OpenErrnos |->
     CASE e \in {"EACCES", "EPERM"} -> "AccessDenied"
       [] e = "ENOENT" -> "FileNotFound"
       [] e = "ENOTDIR" -> "DirectoryNotFound"
       [] OTHER -> "Bad"]

\* C16: in the POSIX branch a failed open yields zero entries and the one
\* nonzero error code of its cause (EACCES or EPERM: AccessDenied, ENOENT:
\* FileNotFound, ENOTDIR: DirectoryNotFound, any other: Bad); a successful
\* open leaves the code at Good whatever the number of entries.
C16_PosixOpenErrors ==
  platform = "posix" =>
    IF oserr \in OpenErrnos
      THEN /\ dpc = "done"
           /\ NumberOfFiles = 0 /\ Entries = NoTable
           /\ Error = CodeOfCause[oserr] /\ Error # "Good"
      ELSE Error = "Good"

\* C16 witness: opendir has failed with EPERM: the listing is empty and the
\* error code is AccessDenied; the accessors have been called since.
C16_Witness ==
  /\ platform = "posix" /\ dpc = "done"
  /\ oserr = "EPERM" /\ Error = "AccessDenied"
  /\ NumberOfFiles = 0
  /\ ret.call = "GetFile" /\ ret.val = NoFile

\* the lookup that ended the Win32 enumeration was the first one
FirstLookupFailed == oserr # "none" /\ added = <<>>

\* the listing holds every entry collected, in order
CollectedKept ==
  /\ NumberOfFiles = Len(added)
  /\ \A i \in Valid : Slot(Entries, i) = added[i + 1]

\* the finished Win32 enumeration: Good after 'no more files' and after a
\* first lookup that reported 'file not found'; after any other terminal
\* error code a nonzero error code, with every collected entry kept
Win32Outcome ==
  (platform = "win32" /\ dpc = "done" /\ oserr # "none") =>
    IF \/ oserr = "ERROR_NO_MORE_FILES"
       \/ (oserr = "ERROR_FILE_NOT_FOUND" /\ FirstLookupFailed)
      THEN Error = "Good" /\ CollectedKept
      ELSE /\ Error \in {"AccessDenied", "FileNotFound",
                          "DirectoryNotFound", "Bad"}
           /\ CollectedKept

\* the step that ends the enumeration removes nothing from the listing
TerminalStepKeeps ==
  (platform = "win32" /\ dpc # "done" /\ dpc' = "done") =>
    UNCHANGED <<Entries, NumberOfFiles>>

\* C17: in the Win32 branch, when enumeration stops on a terminal error
\* other than 'no more files', every entry collected before it is kept and
\* the error code is nonzero; when it ends with 'no more files', or the
\* first lookup reports 'file not found', the error code stays Good.
C17_Win32BestEffort == []Win32Outcome /\ [][TerminalStepKeeps]_vars

\* C17 witness: FindNextFileW has failed with ERROR_ACCESS_DENIED after two
\* entries were collected: both are listed and the code is AccessDenied.
C17_Witness ==
  /\ platform = "win32" /\ dpc = "done"
  /\ oserr = "ERROR_ACCESS_DENIED" /\ Error = "AccessDenied"
  /\ NumberOfFiles = 2 /\ Len(added) = 2
  /\ Entries[1] = added[2]

(***************************************************************************)
(* Properties of the File Handle.                                          *)
(***************************************************************************)
\* closed, or open and owning one resource that was handed out and not
\* released; every other resource handed out was released exactly once and
\* no other resource was ever released; an object that was destroyed, or
\* not yet constructed, holds nothing
HandleLifecycle ==
  /\ \/ Handle = NoHandle
     \/ Handle \in 1..opened /\ closes[Handle] = 0
  /\ \A r \in Resources :
       closes[r] = IF r <= opened /\ r # Handle THEN 1 ELSE 0
  /\ fpc # "live" => Handle = NoHandle

\* Close() leaves the handle closed, keeps the error code, and on a closed
\* handle releases nothing; destruction closes the handle
CloseStep ==
  /\ Close =>
       /\ Handle' = NoHandle
       /\ GetError' = GetError
       /\ Handle = NoHandle => closes' = closes
  /\ FileDestruct =>
       /\ Handle' = NoHandle
       /\ Handle # NoHandle => closes'[Handle] = 1

\* C11: in every reachable state the handle is closed (no OS resource
\* held) or open (exactly one resource owned); over any sequence of
\* constructor opens, Close() calls and destructions each acquired resource
\* is released exactly once, Close() on a closed handle releases nothing,
\* every Close() leaves the handle closed, destruction closes an open
\* handle, and Close() never changes the error code.
C11_HandleLifecycle == []HandleLifecycle /\ [][CloseStep]_vars

\* C11 witness: a second Close() has just found the handle closed, after a
\* failed write set the error code: the one resource acquired was released
\* once, and the error code is still the write's.
C11_Witness ==
  /\ fpc = "live"
  /\ flast = [op |-> "Close", had |-> NoHandle]
  /\ Handle = NoHandle
  /\ opened = 1 /\ closes[1] = 1
  /\ FileError = "OutOfSpace"

(***************************************************************************)
(* Properties of the List's nodes.                                         *)
(***************************************************************************)
\* the element nodes that were linked into the chain
Linked == {n \in ElementNodes : Next[n] # NULL}

\* no round of the loop read or deleted what it must not, no node was
\* deleted twice, only linked nodes were deleted, and once the loop has
\* ended every linked node was deleted exactly once
WalkSafe ==
  /\ ~fault
  /\ \A n \in ElementNodes : nodeDeletes[n] <= 1
  /\ \A n \in ElementNodes : nodeDeletes[n] = 1 => n \in Linked
  /\ lpc # "gone" => (ptr \in Linked => nodeDeletes[ptr] = 0)
  /\ lpc = "gone" => \A n \in Linked : nodeDeletes[n] = 1

\* C18: when a backing list is destroyed, the walk of ~List from Head.Next
\* to Tail terminates and deallocates every element node of the chain
\* exactly once, for any chain length including zero, and never deallocates
\* or dereferences past a sentinel.
C18_DestructorWalk == []WalkSafe /\ (lpc = "walk" ~> lpc = "gone")

\* C18 witness: the destructor has ended on a chain of three nodes linked
\* in an order other than that of their addresses; each was deleted once.
C18_Witness ==
  /\ lpc = "gone" /\ ~fault
  /\ Linked = ElementNodes
  /\ Next[HeadAddr] = 2
  /\ \A n \in ElementNodes : nodeDeletes[n] = 1

\* what an iterator yields over the item's range
Range == Follow(GetData, GetDataEnd, MaxNodes + 2)

\* the List has no element
NoElements == Lptr # NULL /\ Linked = {}

\* following Next from GetData() arrives at GetDataEnd(), and yields only
\* element nodes that are linked and not deleted, never Head or Tail; the
\* range of an item without a List and of a List without elements is empty
RangeWellFormed ==
  /\ Range.reached
  /\ \A k \in 1..Len(Range.data) :
       /\ Range.data[k] \in Linked
       /\ Range.data[k] \notin {HeadAddr, TailAddr}
       /\ nodeDeletes[Range.data[k]] = 0
  /\ Lptr # NULL => Len(Range.data) = Cardinality(Linked)
  /\ Lptr = NULL => GetData = GetDataEnd
  /\ NoElements => GetData = GetDataEnd

\* obtaining the range changes neither the reference count nor the list
RangeReadOnly ==
  GetDataRange =>
    UNCHANGED <<ReferenceCount, Lptr, Next, Prev, nodeDeletes, lpc>>

\* C19: following Next from GetData() reaches GetDataEnd() after finitely
\* many steps and never yields the Head or Tail sentinel as a data element;
\* for an item without a backing list and for a fresh list of zero elements
\* GetData() equals GetDataEnd(); obtaining the range changes neither the
\* reference count nor the list.
C19_RangeIteration == []RangeWellFormed /\ [][RangeReadOnly]_vars

\* C19 witness: the range of a shared List of three elements has just been
\* obtained and iterated: it yielded the three element nodes in chain order
\* and ended at the Tail sentinel.
C19_Witness ==
  /\ lpc = "alive" /\ Lptr # NULL /\ ReferenceCount = 2
  /\ Len(range.data) = 3 /\ range.reached
  /\ range.begin = Next[HeadAddr] /\ range.end = TailAddr
  /\ range.data = Range.data
  /\ range.data[1] = 3

=============================================================================
